---- MODULE Spec2Model ----
(***************************************************************************)
(* A model of lib/datastore/entity.js: the Key constructor and its derived *)
(* path, the key <-> key-proto conversions, the value <-> property codec,  *)
(* the entity codec and the query compiler.                                *)
(*                                                                         *)
(* JavaScript values are tagged records (field t is the tag).  A string is *)
(* the sequence of its characters, a number is a decimal fixed-point value *)
(* (q tenths, times 10^e), an exception is the value Throw(..) that every  *)
(* caller passes on unless the code catches it.                            *)
(***************************************************************************)
EXTENDS Integers, Sequences, FiniteSets, TLC

\* ---------------------------------------------------------------- bounds
\* the longest flat path handed to new Key
MaxPathLen == 4
\* the longest list handed to valueToProperty
MaxListLen == 2
\* the most filters of a query, and the largest limitVal and offsetVal
MaxFilters == 2
MaxLimit == 2

\* ------------------------------------------------------ JavaScript values
Undefined == [t |-> "undefined"]
Null      == [t |-> "null"]
NaN       == [t |-> "NaN"]
Bool(b)   == [t |-> "boolean", b |-> b]
\* the number q/10
Num(q)    == [t |-> "number", q |-> q, e |-> 0]
\* the number (m/10) * 10^21, 10 <= m <= 99
Big(m)    == [t |-> "number", q |-> m, e |-> 21]
Str(s)    == [t |-> "string", s |-> s]
Arr(xs)   == [t |-> "array", items |-> xs]
\* a plain object: its own enumerable properties in insertion order
Obj(ps)   == [t |-> "object", props |-> ps]
Prop(k, v) == [k |-> k, v |-> v]
DateOf(ms) == [t |-> "Date", ms |-> ms]
Buffer(bs) == [t |-> "Buffer", bytes |-> bs]
ByteBuffer(bs) == [t |-> "ByteBuffer", bytes |-> bs]
Throw(m)  == [t |-> "throw", msg |-> m]

\* a protocol object has no tag: it is a function on its field names
IsThrow(x) == "t" \in DOMAIN x /\ x.t = "throw"

\* ToBoolean (a protocol object, which has no tag, is an object)
Truthy(x) ==
  IF "t" \notin DOMAIN x THEN TRUE
  ELSE CASE x.t = "undefined" -> FALSE
         [] x.t = "null"      -> FALSE
         [] x.t = "NaN"       -> FALSE
         [] x.t = "boolean"   -> x.b
         [] x.t = "number"    -> x.q # 0
         [] x.t = "string"    -> Len(x.s) > 0
         [] OTHER             -> TRUE

\* a || b
Or(a, b) == IF Truthy(a) THEN a ELSE b

\* is.string / is.number of the `is` package: the [[Class]] of the value
IsString(x) == x.t = "string"
IsNumber(x) == x.t \in {"number", "NaN"}

\* a[i] for a 0-based index: undefined outside the array
At(a, i) == IF i >= 0 /\ i < Len(a) THEN a[i + 1] ELSE Undefined

\* o.f for a protocol object held as a function on its field names
Get(o, f) == IF f \in DOMAIN o THEN o[f] ELSE Undefined

\* Array.prototype.pop: the value popped, and the array left
PopVal(a)  == IF Len(a) = 0 THEN Undefined ELSE a[Len(a)]
PopRest(a) == IF Len(a) = 0 THEN a ELSE SubSeq(a, 1, Len(a) - 1)

\* ------------------------------------------------------------------- Key
\* new Int(v) and new Double(v) (Int is taken by the Integers module)
IntOf(v)    == [t |-> "Int", val_ |-> v]
DoubleOf(v) == [t |-> "Double", val_ |-> v]

\* Int.prototype.get / Double.prototype.get
IntGet(w)    == w.val_
DoubleGet(w) == w.val_

MkKey(ns, kind, id, name, parent) ==
  [t |-> "Key", namespace |-> ns, kind |-> kind, id |-> id, name |-> name,
   parent |-> parent]

RECURSIVE Key(_, _)
\* a constructor that rejects a kind that is absent or not a string
KeyValidating(ns, path) ==
  LET even == Len(path) % 2 = 0
      p1   == IF even THEN PopRest(path) ELSE path
      p2   == PopRest(p1)
      id   == IF even /\ IsNumber(PopVal(path)) THEN PopVal(path) ELSE Undefined
      name == IF even /\ IsString(PopVal(path)) THEN PopVal(path) ELSE Undefined
      parent == IF Len(p2) > 0 THEN Key(ns, p2) ELSE Undefined
  IN  IF ~IsString(PopVal(p1)) THEN Throw("MalformedKey")
      ELSE IF IsThrow(parent) THEN parent
      ELSE MkKey(ns, PopVal(p1), id, name, parent)

\* new Key({namespace: ns, path: path}): the object built
Key(ns, path) ==
  LET even       == Len(path) % 2 = 0
      identifier == IF even THEN PopVal(path) ELSE Undefined
      p1         == IF even THEN PopRest(path) ELSE path
      id         == IF even /\ IsNumber(identifier) THEN identifier ELSE Undefined
      name       == IF even /\ ~IsNumber(identifier) /\ IsString(identifier)
                    THEN identifier ELSE Undefined
      kind       == PopVal(p1)
      p2         == PopRest(p1)
      parent     == IF Len(p2) > 0 THEN Key(ns, p2) ELSE Undefined
  IN  MkKey(ns, kind, id, name, parent)

\* options.path as the constructor leaves it
RECURSIVE KeyPathLeft(_)
KeyPathLeft(path) ==
  LET p1 == IF Len(path) % 2 = 0 THEN PopRest(path) ELSE path
      p2 == PopRest(p1)
  IN  IF Len(p2) > 0 THEN KeyPathLeft(p2) ELSE p2

\* a getter that forgets the parent's path
KeyPathOwnOnly(key) == <<key.kind, Or(key.name, key.id)>>

RECURSIVE KeyPath(_)
\* a getter that leaves out the identifier of a segment that has none
KeyPathBare(key) ==
  (IF Truthy(key.parent) THEN KeyPath(key.parent) ELSE <<>>)
    \o (IF Truthy(Or(key.name, key.id)) THEN <<key.kind, Or(key.name, key.id)>>
        ELSE <<key.kind>>)

\* the getter of key.path
KeyPath(key) ==
  (IF Truthy(key.parent) THEN KeyPath(key.parent) ELSE <<>>)
    \o <<key.kind, Or(key.name, key.id)>>

ErrNoKind   == "A key should contain at least a kind."
ErrAncestor == "Invalid key. Ancestor keys require an id or name."

\* the loop of keyToKeyProto from index i on: Arr(the elements pushed), or the
\* exception thrown
RECURSIVE KeyToElems(_, _)
KeyToElems(keyPath, i) ==
  IF i >= Len(keyPath) THEN Arr(<<>>)
  ELSE LET val == At(keyPath, i + 1)
           p   == IF Truthy(val)
                  THEN IF IsNumber(val)
                       THEN [kind |-> At(keyPath, i), id |-> val]
                       ELSE [kind |-> At(keyPath, i), name |-> val]
                  ELSE [kind |-> At(keyPath, i)]
       IN  IF ~Truthy(val) /\ i < Len(keyPath) - 2
           THEN Throw(ErrAncestor)
           ELSE LET rest == KeyToElems(keyPath, i + 2)
                IN  IF IsThrow(rest) THEN rest ELSE Arr(<<p>> \o rest.items)

\* a conversion that lets an ancestor without identifier through
keyToKeyProtoLax(key) ==
  LET keyPath == KeyPath(key)
      n == (Len(keyPath) + 1) \div 2
      elem(i) == LET val == At(keyPath, 2 * i + 1)
                 IN  IF Truthy(val)
                     THEN IF IsNumber(val)
                          THEN [kind |-> At(keyPath, 2 * i), id |-> val]
                          ELSE [kind |-> At(keyPath, 2 * i), name |-> val]
                     ELSE [kind |-> At(keyPath, 2 * i)]
  IN  IF ~IsString(At(keyPath, 0)) THEN Throw(ErrNoKind)
      ELSE [path_element |-> [i \in 1..n |-> elem(i - 1)]]

keyToKeyProto(key) ==
  LET keyPath == KeyPath(key)
  IN  IF ~IsString(At(keyPath, 0)) THEN Throw(ErrNoKind)
      ELSE LET path == KeyToElems(keyPath, 0)
           IN  IF IsThrow(path) THEN path
               ELSE IF Truthy(key.namespace)
                    THEN [path_element |-> path.items,
                          partition_id |-> [namespace |-> key.namespace]]
                    ELSE [path_element |-> path.items]

\* the loop of isKeyComplete from index i on
RECURSIVE CompleteFrom(_, _)
CompleteFrom(elems, i) ==
  IF i >= Len(elems) THEN Bool(TRUE)
  ELSE IF ~Truthy(Get(At(elems, i), "kind")) THEN Bool(FALSE)
  ELSE IF ~Truthy(Get(At(elems, i), "id")) /\ ~Truthy(Get(At(elems, i), "name"))
       THEN Bool(FALSE)
  ELSE CompleteFrom(elems, i + 1)

\* a predicate that catches the conversion's failure and answers false
isKeyCompleteCatching(key) ==
  LET proto == keyToKeyProto(key)
  IN  IF IsThrow(proto) THEN Bool(FALSE) ELSE CompleteFrom(proto.path_element, 0)

\* a predicate that looks at the innermost element only
isKeyCompleteLastOnly(key) ==
  LET proto == keyToKeyProto(key)
  IN  IF IsThrow(proto) THEN proto
      ELSE CompleteFrom(proto.path_element, Len(proto.path_element) - 1)

isKeyComplete(key) ==
  LET proto == keyToKeyProto(key)
  IN  IF IsThrow(proto) THEN proto ELSE CompleteFrom(proto.path_element, 0)

\* ------------------------------------------- numbers, strings and dates
DigitChars == <<"0", "1", "2", "3", "4", "5", "6", "7", "8", "9">>
IsDigit(c) == \E i \in 1..10 : DigitChars[i] = c
DigitVal(c) == (CHOOSE i \in 1..10 : DigitChars[i] = c) - 1
Abs(n) == IF n < 0 THEN -n ELSE n

\* the decimal digits of a natural number
RECURSIVE Digits(_)
Digits(n) ==
  IF n < 10 THEN <<DigitChars[n + 1]>>
  ELSE Digits(n \div 10) \o <<DigitChars[(n % 10) + 1]>>

\* Number.prototype.toString: a decimal below 10^21, exponent notation from
\* 10^21 on
NumberToString(x) ==
  IF x.t = "NaN" THEN <<"N", "a", "N">>
  ELSE LET mag  == Abs(x.q)
           sign == IF x.q < 0 THEN <<"-">> ELSE <<>>
           frac == IF mag % 10 = 0 THEN <<>> ELSE <<".", DigitChars[(mag % 10) + 1]>>
           exp  == IF x.e = 21 THEN <<"e", "+", "2", "1">> ELSE <<>>
       IN  sign \o Digits(mag \div 10) \o frac \o exp

\* x.toString() for the values a property holds
toString(x) == IF x.t = "string" THEN x.s ELSE NumberToString(x)

\* the value of the longest prefix of digits of s from position i on, after acc
RECURSIVE DigitPrefix(_, _, _)
DigitPrefix(s, i, acc) ==
  IF i <= Len(s) /\ IsDigit(s[i])
  THEN DigitPrefix(s, i + 1, acc * 10 + DigitVal(s[i]))
  ELSE acc

\* parseInt(s, 10): an optional sign, then the digits up to the first
\* character that is none; NaN when there is no digit
parseInt(s) ==
  LET neg   == Len(s) > 0 /\ s[1] = "-"
      start == IF Len(s) > 0 /\ s[1] \in {"-", "+"} THEN 2 ELSE 1
  IN  IF start > Len(s) \/ ~IsDigit(s[start]) THEN NaN
      ELSE Num((IF neg THEN -10 ELSE 10) * DigitPrefix(s, start, 0))

\* Number(x) for an id of a key proto: a number, a string of digits (the form
\* a 64-bit id has on the wire), or a missing field
ToNumber(x) ==
  CASE x.t \in {"number", "NaN"} -> x
    [] x.t = "string" ->
         IF \A i \in 1..Len(x.s) : IsDigit(x.s[i])
         THEN Num(10 * DigitPrefix(x.s, 1, 0)) ELSE NaN
    [] x.t = "null" -> Num(0)
    [] OTHER -> NaN

\* v % 1 === 0
ZeroFraction(v) == v.t = "number" /\ (v.e = 21 \/ v.q % 10 = 0)

\* date.getTime() * 1000
MicrosOf(d) == IF d.ms.t = "NaN" THEN NaN ELSE Num(d.ms.q * 1000)

\* new Date(microSecs / 1000): the time value is the quotient cut to a whole
\* number of milliseconds
DateFromMicros(us) ==
  IF us.t = "NaN" THEN DateOf(NaN)
  ELSE DateOf(Num((IF us.q < 0 THEN -10 ELSE 10) * (Abs(us.q) \div 10000)))

\* blob.toBuffer(): a method of the wire library's ByteBuffer; a Buffer has none
ToBuffer(b) ==
  IF b.t = "ByteBuffer" THEN Buffer(b.bytes)
  ELSE Throw("TypeError: property.blob_value.toBuffer is not a function")

\* exists(value)
exists(value) == value # Null /\ value # Undefined

\* the first exception among the results xs, if any
FirstThrow(xs) == xs[CHOOSE i \in 1..Len(xs) :
                       IsThrow(xs[i]) /\ \A j \in 1..(i - 1) : ~IsThrow(xs[j])]
AnyThrow(xs) == \E i \in 1..Len(xs) : IsThrow(xs[i])

\* ------------------------------------------------------ key from its proto
\* the forEach of keyFromKeyProto from index i on, path being what was pushed
RECURSIVE KeyFromElems(_, _, _)
KeyFromElems(elems, i, path) ==
  IF i >= Len(elems) THEN Arr(path)
  ELSE LET id == Or(ToNumber(Get(elems[i + 1], "id")), Get(elems[i + 1], "name"))
           kind == Get(elems[i + 1], "kind")
       IN  IF Truthy(id) THEN KeyFromElems(elems, i + 1, path \o <<kind, id>>)
           ELSE IF i < Len(elems) - 1 THEN Throw(ErrAncestor)
           ELSE KeyFromElems(elems, i + 1, path \o <<kind>>)

\* a decoder that does not read partition_id
keyFromKeyProtoNoPartition(proto) ==
  LET path == KeyFromElems(proto.path_element, 0, <<>>)
  IN  IF IsThrow(path) THEN path ELSE Key(Undefined, path.items)

keyFromKeyProto(proto) ==
  LET pid  == Get(proto, "partition_id")
      ns   == IF Truthy(pid) /\ Truthy(Get(pid, "namespace"))
              THEN pid.namespace ELSE Undefined
      path == KeyFromElems(proto.path_element, 0, <<>>)
  IN  IF IsThrow(path) THEN path ELSE Key(ns, path.items)

\* ----------------------------------------------------------- value codec
ErrUnsupported == "Unsupported field value is provided."

\* a Double wrapper put through the rule for plain numbers
DoubleToPropertyByFraction(v) ==
  IF ZeroFraction(DoubleGet(v)) THEN [integer_value |-> DoubleGet(v)]
  ELSE [double_value |-> DoubleGet(v)]

\* the branches of valueToProperty for an Int, a Double and a plain number
IntToProperty(v)    == [integer_value |-> IntGet(v)]
DoubleToProperty(v) == [double_value |-> DoubleGet(v)]
NumberToProperty(v) ==
  IF ZeroFraction(v) THEN [integer_value |-> v] ELSE [double_value |-> v]

RECURSIVE valueToProperty(_)
valueToProperty(v) ==
  CASE v.t = "boolean" -> [boolean_value |-> v]
    [] v.t = "Int"     -> IntToProperty(v)
    [] v.t = "Double"  -> DoubleToProperty(v)
    [] v.t \in {"number", "NaN"} -> NumberToProperty(v)
    [] v.t = "Date"    -> [timestamp_microseconds_value |-> MicrosOf(v)]
    [] v.t = "string"  -> [string_value |-> v]
    [] v.t = "Buffer"  -> [blob_value |-> v]
    [] v.t = "array"   ->
         LET ps == [i \in 1..Len(v.items) |-> valueToProperty(v.items[i])]
         IN  IF AnyThrow(ps) THEN FirstThrow(ps) ELSE [list_value |-> Arr(ps)]
    [] v.t = "Key"     ->
         LET kp == keyToKeyProto(v)
         IN  IF IsThrow(kp) THEN kp ELSE [key_value |-> kp]
    [] v.t = "object" /\ Len(v.props) > 0 ->
         LET ps == [i \in 1..Len(v.props) |-> valueToProperty(v.props[i].v)]
         IN  IF AnyThrow(ps) THEN FirstThrow(ps)
             ELSE [entity_value |->
                     [property |-> [i \in 1..Len(v.props) |->
                                      [name |-> Str(v.props[i].k), value |-> ps[i]]]],
                   indexed |-> Bool(FALSE)]
    [] OTHER -> Throw(ErrUnsupported)

\* acc[k] = v on a plain object: a new property goes last, an old one keeps
\* its place
Put(acc, k, v) ==
  IF \E i \in 1..Len(acc) : acc[i].k = k
  THEN [i \in 1..Len(acc) |-> IF acc[i].k = k THEN Prop(k, v) ELSE acc[i]]
  ELSE Append(acc, Prop(k, v))

RECURSIVE PutAll(_, _, _)
PutAll(acc, names, vals) ==
  IF names = <<>> THEN acc
  ELSE PutAll(Put(acc, Head(names), Head(vals)), Tail(names), Tail(vals))

RECURSIVE propertyToValue(_)
entityFromEntityProto(proto) ==
  LET properties == IF "property" \in DOMAIN proto THEN proto.property ELSE <<>>
      vals  == [i \in 1..Len(properties) |-> propertyToValue(properties[i].value)]
      names == [i \in 1..Len(properties) |-> toString(properties[i].name)]
  IN  IF AnyThrow(vals) THEN FirstThrow(vals) ELSE Obj(PutAll(<<>>, names, vals))

propertyToValue(property) ==
  IF exists(Get(property, "integer_value"))
    THEN parseInt(toString(property.integer_value))
  ELSE IF exists(Get(property, "double_value")) THEN property.double_value
  ELSE IF exists(Get(property, "string_value")) THEN property.string_value
  ELSE IF exists(Get(property, "blob_value")) THEN ToBuffer(property.blob_value)
  ELSE IF exists(Get(property, "timestamp_microseconds_value"))
    THEN DateFromMicros(parseInt(toString(property.timestamp_microseconds_value)))
  ELSE IF exists(Get(property, "key_value"))
    THEN keyFromKeyProto(property.key_value)
  ELSE IF exists(Get(property, "entity_value"))
    THEN entityFromEntityProto(property.entity_value)
  ELSE IF exists(Get(property, "boolean_value")) THEN property.boolean_value
  ELSE IF exists(Get(property, "list_value"))
    THEN LET vs == [i \in 1..Len(property.list_value.items) |->
                      propertyToValue(property.list_value.items[i])]
         IN  IF AnyThrow(vs) THEN FirstThrow(vs) ELSE Arr(vs)
  ELSE Undefined

\* ---------------------------------------------------------- entity codec
entityToEntityProto(entity) ==
  LET ps == [i \in 1..Len(entity.props) |-> valueToProperty(entity.props[i].v)]
  IN  IF AnyThrow(ps) THEN FirstThrow(ps)
      ELSE [key |-> Null,
            property |-> [i \in 1..Len(entity.props) |->
                            [name |-> Str(entity.props[i].k), value |-> ps[i]]]]

\* --------------------------------------------------------- query compiler
\* a field present only under a condition
EmptyObject == [x \in {} |-> x]
Opt(cond, name, val) == IF cond THEN name :> val ELSE EmptyObject

\* table[key] for an object literal used as a table
Lookup(table, k) == IF k \in DOMAIN table THEN Str(table[k]) ELSE Undefined

OP_TO_OPERATOR ==
  (<<"=">> :> <<"E", "Q", "U", "A", "L">>)
    @@ (<<">">> :> <<"G", "R", "E", "A", "T", "E", "R", "_", "T", "H", "A", "N">>)
    @@ (<<">", "=">> :> <<"G", "R", "E", "A", "T", "E", "R", "_", "T", "H", "A", "N", "_", "O", "R", "_", "E", "Q", "U", "A", "L">>)
    @@ (<<"<">> :> <<"L", "E", "S", "S", "_", "T", "H", "A", "N">>)
    @@ (<<"<", "=">> :> <<"L", "E", "S", "S", "_", "T", "H", "A", "N", "_", "O", "R", "_", "E", "Q", "U", "A", "L">>)
    @@ (<<"H", "A", "S", "_", "A", "N", "C", "E", "S", "T", "O", "R">> :>
          <<"H", "A", "S", "_", "A", "N", "C", "E", "S", "T", "O", "R">>)

SIGN_TO_ORDER ==
  (<<"-">> :> <<"D", "E", "S", "C", "E", "N", "D", "I", "N", "G">>)
    @@ (<<"+">> :> <<"A", "S", "C", "E", "N", "D", "I", "N", "G">>)

Base64Chars ==
  <<"A", "B", "C", "D", "E", "F", "G", "H", "I", "J", "K", "L", "M", "N", "O", "P",
    "Q", "R", "S", "T", "U", "V", "W", "X", "Y", "Z", "a", "b", "c", "d", "e", "f",
    "g", "h", "i", "j", "k", "l", "m", "n", "o", "p", "q", "r", "s", "t", "u", "v",
    "w", "x", "y", "z", "0", "1", "2", "3", "4", "5", "6", "7", "8", "9", "+", "/">>
Base64Index(c) == (CHOOSE i \in 1..64 : Base64Chars[i] = c) - 1

\* the bytes of the 6-bit groups cs (at most four of them)
Base64Group(cs) ==
  LET n == Len(cs)
      v(i) == IF i <= n THEN Base64Index(cs[i]) ELSE 0
      bits == ((v(1) * 64 + v(2)) * 64 + v(3)) * 64 + v(4)
      bytes == <<bits \div 65536, (bits \div 256) % 256, bits % 256>>
  IN  SubSeq(bytes, 1, IF n = 0 THEN 0 ELSE n - 1)

RECURSIVE Base64Decode(_)
Base64Decode(cs) ==
  IF Len(cs) <= 4 THEN Base64Group(cs)
  ELSE Base64Group(SubSeq(cs, 1, 4)) \o Base64Decode(SubSeq(cs, 5, Len(cs)))

\* new Buffer(str, 'base64'): the characters of the alphabet, up to the padding
BufferFromBase64(str) ==
  Buffer(Base64Decode(SelectSeq(str.s, LAMBDA c : \E i \in 1..64 : Base64Chars[i] = c)))

KeyField == <<"_", "_", "k", "e", "y", "_", "_">>

\* a filter compiler that rejects an operator outside the table
FilterToProtoChecked(f) ==
  LET val == IF f.name = Str(KeyField)
             THEN LET kp == keyToKeyProto(f.val)
                  IN  IF IsThrow(kp) THEN kp ELSE [key_value |-> kp]
             ELSE valueToProperty(f.val)
  IN  IF f.op.t # "string" \/ f.op.s \notin DOMAIN OP_TO_OPERATOR
      THEN Throw("UnsupportedOperator")
      ELSE IF IsThrow(val) THEN val
      ELSE [property_filter |->
              [property |-> [name |-> f.name],
               operator |-> Lookup(OP_TO_OPERATOR, f.op.s),
               value    |-> val]]

\* the callback of q.filters.map
FilterToProto(f) ==
  LET val == IF f.name = Str(KeyField)
             THEN LET kp == keyToKeyProto(f.val)
                  IN  IF IsThrow(kp) THEN kp ELSE [key_value |-> kp]
             ELSE valueToProperty(f.val)
  IN  IF IsThrow(val) THEN val
      ELSE [property_filter |->
              [property |-> [name |-> f.name],
               operator |-> Lookup(OP_TO_OPERATOR, f.op.s),
               value    |-> val]]

\* the number comparison a > 0
Positive(a) == a.t = "number" /\ a.q > 0

\* pagination that takes zero for a set value
PaginationFromZero(q) ==
  Opt(Truthy(q.startVal), "start_cursor", BufferFromBase64(q.startVal))
    @@ Opt(Truthy(q.endVal), "end_cursor", BufferFromBase64(q.endVal))
    @@ Opt(Positive(q.offsetVal) \/ q.offsetVal = Num(0), "offset", q.offsetVal)
    @@ Opt(Positive(q.limitVal) \/ q.limitVal = Num(0), "limit", q.limitVal)

\* the fields queryToQueryProto sets under "pagination"
Pagination(q) ==
  Opt(Truthy(q.startVal), "start_cursor", BufferFromBase64(q.startVal))
    @@ Opt(Truthy(q.endVal), "end_cursor", BufferFromBase64(q.endVal))
    @@ Opt(Positive(q.offsetVal), "offset", q.offsetVal)
    @@ Opt(Positive(q.limitVal), "limit", q.limitVal)

queryToQueryProto(q) ==
  LET filters == [i \in 1..Len(q.filters) |-> FilterToProto(q.filters[i])]
  IN  IF AnyThrow(filters) THEN FirstThrow(filters)
      ELSE [projection |-> [i \in 1..Len(q.selectVal) |->
                              [property |-> [name |-> q.selectVal[i]]]],
            kind |-> [i \in 1..Len(q.kinds) |-> [name |-> q.kinds[i]]],
            order |-> [i \in 1..Len(q.orders) |->
                         [property |-> [name |-> q.orders[i].name],
                          direction |-> Lookup(SIGN_TO_ORDER, q.orders[i].sign.s)]],
            group_by |-> [i \in 1..Len(q.groupByVal) |-> [name |-> q.groupByVal[i]]]]
           @@ Opt(Len(q.filters) > 0, "filter",
                  [composite_filter |->
                     [filter |-> filters, operator |-> Str(<<"A", "N", "D">>)]])
           @@ Pagination(q)

\* ------------------------------------------------------------------ state
VARIABLES
  given,     \* the options handed to new Key, as the caller wrote them
  options,   \* the same object after the constructor has run
  key,       \* the Key constructed (Undefined before any construction)
  kop,       \* the function called last on key
  kret       \* what that call returned, or Throw(..)

kvars == <<given, options, key, kop, kret>>

VARIABLES
  native,    \* the native value (or record) handed to the encoder
  prop,      \* the property (or entity proto) the encoder returned, or Throw(..)
  back,      \* what the decoder returned for prop, or Throw(..)
  vop        \* the function called last

vvars == <<native, prop, back, vop>>

VARIABLES
  query,     \* the query description handed to the compiler
  qop,       \* the function called last
  qret       \* the query proto returned, or Throw(..)

qvars == <<query, qop, qret>>

\* ------------------------------------------------- the key state machine
Kinds      == {Str(<<"K">>), Str(<<>>)}
Namespaces == {Undefined, Str(<<"n", "s">>), Str(<<>>)}
\* what a caller may put in a path: kinds, names, ids, and a missing value
PathElems  == Kinds \cup {Str(<<"n">>), Num(0), Num(70), Undefined}

RECURSIVE SeqsUpTo(_, _)
SeqsUpTo(S, n) ==
  IF n = 0 THEN {<<>>}
  ELSE LET shorter == SeqsUpTo(S, n - 1)
       IN  shorter \cup {Append(s, x) : s \in {r \in shorter : Len(r) = n - 1}, x \in S}

Paths == SeqsUpTo(PathElems, MaxPathLen)

KInit ==
  /\ given = [namespace |-> Undefined, path |-> <<>>]
  /\ options = given
  /\ key = Undefined
  /\ kop = "none"
  /\ kret = Undefined

\* one behaviour follows one Key object from its construction on
NewKey(ns, path) ==
  /\ key = Undefined
  /\ given' = [namespace |-> ns, path |-> path]
  /\ options' = [namespace |-> ns, path |-> KeyPathLeft(path)]
  /\ key' = Key(ns, path)
  /\ kop' = "Key"
  /\ kret' = Undefined
  /\ UNCHANGED <<vvars, qvars>>

\* a read that returns the path as it was computed at construction
ReadPathCached ==
  /\ key # Undefined
  /\ kop' = "path"
  /\ kret' = Arr(KeyPath(Key(given.namespace, given.path)))
  /\ UNCHANGED <<given, options, key>>
  /\ UNCHANGED <<vvars, qvars>>

\* a read of key.path
ReadPath ==
  /\ key # Undefined
  /\ kop' = "path"
  /\ kret' = Arr(KeyPath(key))
  /\ UNCHANGED <<given, options, key>>
  /\ UNCHANGED <<vvars, qvars>>

\* a read of key.parent.path, for a key that has a parent
ReadParentPath ==
  /\ key # Undefined
  /\ Truthy(key.parent)
  /\ kop' = "parent.path"
  /\ kret' = Arr(KeyPath(key.parent))
  /\ UNCHANGED <<given, options, key>>
  /\ UNCHANGED <<vvars, qvars>>

CallKeyToKeyProto ==
  /\ key # Undefined
  /\ kop' = "keyToKeyProto"
  /\ kret' = keyToKeyProto(key)
  /\ UNCHANGED <<given, options, key>>
  /\ UNCHANGED <<vvars, qvars>>

CallIsKeyComplete ==
  /\ key # Undefined
  /\ kop' = "isKeyComplete"
  /\ kret' = isKeyComplete(key)
  /\ UNCHANGED <<given, options, key>>
  /\ UNCHANGED <<vvars, qvars>>

\* the protocol object that keyToKeyProto returned goes back through
\* keyFromKeyProto
CallKeyFromKeyProto ==
  /\ kop = "keyToKeyProto"
  /\ ~IsThrow(kret)
  /\ kop' = "keyFromKeyProto"
  /\ kret' = keyFromKeyProto(kret)
  /\ UNCHANGED <<given, options, key>>
  /\ UNCHANGED <<vvars, qvars>>

\* the options a Key is made from; the namespace '' goes with the keys of one
\* segment only, the namespace being copied unread to every ancestor
KeyOptions ==
  {o \in [namespace : Namespaces, path : Paths] :
     o.namespace = Str(<<>>) => Len(o.path) <= 2}

KNext ==
  \/ \E o \in KeyOptions : NewKey(o.namespace, o.path)
  \/ ReadPath
  \/ ReadParentPath
  \/ CallKeyToKeyProto
  \/ CallIsKeyComplete
  \/ CallKeyFromKeyProto

\* key.kind, key.id and key.name are plain writable fields; so are those of
\* key.parent, key.parent.parent, ..  (depth 0 is the key itself)
RECURSIVE SetField(_, _, _, _)
SetField(k, depth, field, value) ==
  IF depth = 0 THEN [k EXCEPT ![field] = value]
  ELSE [k EXCEPT !.parent = SetField(k.parent, depth - 1, field, value)]

RECURSIVE Depth(_)
Depth(k) == IF Truthy(k.parent) THEN 1 + Depth(k.parent) ELSE 0

NewValues ==
  [kind |-> {Str(<<"J">>)},
   id   |-> {Undefined, Num(80)},
   name |-> {Undefined, Str(<<"m">>)}]

\* the caller reassigns one field of the key or of one of its ancestors
AssignField(depth, field, value) ==
  /\ key # Undefined
  /\ depth <= Depth(key)
  /\ key' = SetField(key, depth, field, value)
  /\ kop' = "assign"
  /\ kret' = Undefined
  /\ UNCHANGED <<given, options>>
  /\ UNCHANGED <<vvars, qvars>>

\* the keys that get reassigned: one, two and three segments
ReassignedPaths ==
  {<<Str(<<"K">>)>>,
   <<Str(<<"K">>), Num(70)>>,
   <<Str(<<"K">>), Str(<<"n">>)>>,
   <<Str(<<"K">>), Num(70), Str(<<"K">>)>>,
   <<Str(<<"K">>), Num(70), Str(<<"K">>), Str(<<"n">>)>>,
   <<Str(<<"K">>), Str(<<"n">>), Str(<<"K">>), Num(70), Str(<<"K">>)>>}

RNext ==
  \/ \E path \in ReassignedPaths : NewKey(Undefined, path)
  \/ \E depth \in 0..2, field \in DOMAIN NewValues :
       \E value \in NewValues[field] : AssignField(depth, field, value)
  \/ ReadPath
  \/ ReadParentPath

\* ----------------------------------------------- the value state machine
Hi == <<"H", "i">>
Numbers  == {Num(0), Num(70), Num(75), Num(-75), Num(5), Big(10), Big(25)}
Wrapped  == {Num(70), Num(75), Num(0)}
KeyValues ==
  {Key(Undefined, <<Str(<<"K">>), Num(70)>>),
   Key(Str(<<"n", "s">>), <<Str(<<"K">>), Str(<<"n">>), Str(<<"K">>)>>),
   Key(Undefined, <<Str(<<"K">>), Num(70), Str(<<"K">>), Str(<<"n">>)>>)}
Scalars ==
  {Bool(TRUE), Bool(FALSE), Str(<<>>), Str(Hi), Buffer(<<>>), Buffer(<<104, 105>>),
   DateOf(Num(0)), DateOf(Num(12340))}
    \cup Numbers \cup {IntOf(n) : n \in Wrapped} \cup {DoubleOf(n) : n \in Wrapped}
    \cup KeyValues
\* values the encoder has no branch for
Unsupported == {Undefined, Null, Obj(<<>>)}

\* what a list or a record may hold: scalars, and one list and one record
Items ==
  {Bool(TRUE), Num(70), Num(75), Str(Hi), IntOf(Num(70)), Buffer(<<104, 105>>),
   Arr(<<Num(70), Str(Hi)>>), Obj(<<Prop(<<"a">>, Str(Hi))>>)}
Lists == {Arr(xs) : xs \in SeqsUpTo(Items, MaxListLen)}

FieldNames == {<<"n", "a", "m", "e">>, <<"l", "e", "g", "i", "t">>}
\* the records over FieldNames, in either order of insertion
Records ==
  {Obj(<<>>)}
    \cup {Obj(<<Prop(k, v)>>) : k \in FieldNames, v \in Items}
    \cup UNION {{Obj(<<Prop(k1, v1), Prop(k2, v2)>>) :
                   k2 \in FieldNames \ {k1}, v1 \in Items, v2 \in Items} :
                k1 \in FieldNames}

NativeValues == Scalars \cup Unsupported \cup Lists \cup Records

\* properties as they come off the wire
WireProperties ==
  {[blob_value |-> ByteBuffer(<<104, 105>>)],
   [integer_value |-> Str(<<"7", "0">>)],
   [boolean_value |-> Bool(FALSE), string_value |-> Str(Hi)],
   [key_value |-> [path_element |-> <<[kind |-> Str(<<"K">>), id |-> Str(<<"7">>)]>>]],
   [string_value |-> Null],
   [list_value |-> Arr(<<[double_value |-> Num(75)]>>)]}

VInit ==
  /\ native = Undefined
  /\ prop = Undefined
  /\ back = Undefined
  /\ vop = "none"

CallValueToProperty(v) ==
  /\ vop = "none"
  /\ native' = v
  /\ prop' = valueToProperty(v)
  /\ vop' = "valueToProperty"
  /\ UNCHANGED back
  /\ UNCHANGED <<kvars, qvars>>

\* propertyToValue on a property valueToProperty returned
CallPropertyToValue ==
  /\ vop = "valueToProperty"
  /\ ~IsThrow(prop)
  /\ back' = propertyToValue(prop)
  /\ vop' = "propertyToValue"
  /\ UNCHANGED <<native, prop>>
  /\ UNCHANGED <<kvars, qvars>>

\* propertyToValue on a property off the wire
DecodeWireProperty(p) ==
  /\ vop = "none"
  /\ prop' = p
  /\ back' = propertyToValue(p)
  /\ vop' = "propertyToValue(wire)"
  /\ UNCHANGED native
  /\ UNCHANGED <<kvars, qvars>>

CallEntityToEntityProto(r) ==
  /\ vop = "none"
  /\ native' = r
  /\ prop' = entityToEntityProto(r)
  /\ vop' = "entityToEntityProto"
  /\ UNCHANGED back
  /\ UNCHANGED <<kvars, qvars>>

CallEntityFromEntityProto ==
  /\ vop = "entityToEntityProto"
  /\ ~IsThrow(prop)
  /\ back' = entityFromEntityProto(prop)
  /\ vop' = "entityFromEntityProto"
  /\ UNCHANGED <<native, prop>>
  /\ UNCHANGED <<kvars, qvars>>

VNext ==
  \/ \E v \in NativeValues : CallValueToProperty(v)
  \/ CallPropertyToValue
  \/ \E p \in WireProperties : DecodeWireProperty(p)
  \/ \E r \in Records : CallEntityToEntityProto(r)
  \/ CallEntityFromEntityProto

\* ----------------------------------------------- the query state machine
GoodKey == Key(Undefined, <<Str(<<"K">>), Num(70)>>)
BadKey  == Key(Undefined, <<Str(<<"K">>), Undefined, Str(<<"K">>), Num(70)>>)
NameField == Str(<<"n", "a", "m", "e">>)
Filter(name, op, val) == [name |-> name, op |-> Str(op), val |-> val]
Filters ==
  {Filter(Str(KeyField), <<"H", "A", "S", "_", "A", "N", "C", "E", "S", "T", "O", "R">>,
          GoodKey),
   Filter(Str(KeyField), <<"=">>, BadKey),
   Filter(NameField, <<"=">>, Str(Hi)),
   Filter(NameField, <<">">>, Num(70)),
   Filter(NameField, <<">", "=">>, Num(75)),
   Filter(NameField, <<"<">>, IntOf(Num(70))),
   Filter(NameField, <<"<", "=">>, Bool(TRUE)),
   Filter(NameField, <<"!", "=">>, Str(Hi)),
   Filter(NameField, <<"=", "=">>, Undefined)}

Order(name, sign) == [name |-> Str(name), sign |-> Str(sign)]
OrderSeqs ==
  {<<>>, <<Order(<<"c">>, <<"-">>)>>, <<Order(<<"c">>, <<"+">>)>>,
   <<Order(<<"c">>, <<"-">>), Order(<<"d">>, <<"?">>)>>}
NameSeqs == {<<>>, <<Str(<<"c">>)>>}
Cursors  == {Null, Str(<<>>), Str(<<"a", "G", "k", "=">>), Str(<<"a", "G", "k", "h">>)}
\* limitVal and offsetVal: -1 (the builder's "unset"), 0, and set values
Limits   == {Num(10 * n) : n \in -1..MaxLimit}

Query(kinds, filters, orders, groupBy, select, start, end, limit, offset) ==
  [kinds |-> kinds, filters |-> filters, orders |-> orders,
   groupByVal |-> groupBy, selectVal |-> select, startVal |-> start,
   endVal |-> end, limitVal |-> limit, offsetVal |-> offset]

\* every list of filters with every limit and offset, and every shape of the
\* other fields with a short list of filters
Queries ==
  {Query(<<Str(<<"K">>)>>, fs, <<>>, <<>>, <<>>, Null, Null, l, o) :
     fs \in SeqsUpTo(Filters, MaxFilters), l \in Limits, o \in Limits}
    \cup
  {Query(ks, fs, os, g, g, st, en, l, Num(-10)) :
     ks \in NameSeqs, fs \in SeqsUpTo(Filters, 1), os \in OrderSeqs, g \in NameSeqs,
     st \in Cursors, en \in {Null, Str(<<"a", "G", "k">>)}, l \in {Num(-10), Num(100)}}

QInit ==
  /\ query = Undefined
  /\ qop = "none"
  /\ qret = Undefined

CallQueryToQueryProto(q) ==
  /\ qop = "none"
  /\ query' = q
  /\ qop' = "queryToQueryProto"
  /\ qret' = queryToQueryProto(q)
  /\ UNCHANGED <<kvars, vvars>>

QNext == \E q \in Queries : CallQueryToQueryProto(q)

\* --------------------------------------------------------- specifications
vars == <<kvars, vvars, qvars>>
Init == KInit /\ VInit /\ QInit

\* the life of one Key object
SpecKey   == Init /\ [][KNext]_vars
\* one Key object whose fields, and whose ancestors' fields, are reassigned
SpecReassign == Init /\ [][RNext]_vars
\* one value, or one record, through the codec
SpecValue == Init /\ [][VNext]_vars
\* one query through the compiler
SpecQuery == Init /\ [][QNext]_vars

\* ------------------------------------------------------ claims on keys
\* the Key objects from the outermost ancestor to the key itself
RECURSIVE Chain(_)
Chain(k) == (IF Truthy(k.parent) THEN Chain(k.parent) ELSE <<>>) \o <<k>>

\* a flat path as a caller writes it: string kinds at the first, third, ..
\* places, number or string identifiers at the second, fourth, ..
FlatPath(path) ==
  /\ Len(path) >= 1
  /\ \A i \in 1..Len(path) :
       IF i % 2 = 1 THEN IsString(path[i]) ELSE IsNumber(path[i]) \/ IsString(path[i])
CompleteFlatPath(path) == FlatPath(path) /\ Len(path) % 2 = 0

\* an identifier the conversions count as one: a non-zero id, a non-empty name
HasIdentifier(k) == Truthy(k.id) \/ Truthy(k.name)
\* an id or a name was stored at all
HasIdOrName(k) == k.id # Undefined \/ k.name # Undefined
Ancestors(k) == SubSeq(Chain(k), 1, Len(Chain(k)) - 1)
Range(f) == {f[i] : i \in DOMAIN f}

\* C2, as stated: for every complete flat path (string kinds, number or string
\* identifiers), key.path equals the path given, and key.parent.path equals it
\* without its last two elements.
C2_PathEqualsGiven ==
  /\ (kop = "path" /\ CompleteFlatPath(given.path)) => kret.items = given.path
  /\ (kop = "parent.path" /\ CompleteFlatPath(given.path))
       => kret.items = SubSeq(given.path, 1, Len(given.path) - 2)

NoEmptyName(path) == \A i \in 1..Len(path) : i % 2 = 0 => path[i] # Str(<<>>)

\* C2, amended: the same for every complete flat path whose string identifiers
\* are non-empty; an empty-string identifier reads back as undefined.
C2_PathEqualsGivenNonEmptyNames ==
  /\ (kop = "path" /\ CompleteFlatPath(given.path) /\ NoEmptyName(given.path))
       => kret.items = given.path
  /\ (kop = "parent.path" /\ CompleteFlatPath(given.path) /\ NoEmptyName(given.path))
       => kret.items = SubSeq(given.path, 1, Len(given.path) - 2)
  /\ (kop = "path" /\ CompleteFlatPath(given.path)
        /\ given.path[Len(given.path)] = Str(<<>>))
       => kret.items[Len(kret.items)] = Undefined

C2_Witness ==
  /\ kop = "parent.path"
  /\ given.path = <<Str(<<"K">>), Str(<<"n">>), Str(<<"K">>), Num(70)>>
  /\ kret.items = <<Str(<<"K">>), Str(<<"n">>)>>

\* C3, as stated: isKeyComplete never throws.
C3_NeverThrows == kop = "isKeyComplete" => ~IsThrow(kret)

\* the conversion to protocol form fails on this key: its outermost kind is not
\* a string, or an ancestor has no identifier
ConversionFails(k) ==
  \/ ~IsString(Chain(k)[1].kind)
  \/ \E a \in Range(Ancestors(k)) : ~HasIdentifier(a)

\* C3, amended: isKeyComplete throws exactly when the conversion to protocol
\* form fails, and passes that error on; otherwise it returns a boolean.
C3_ThrowsWhenConversionFails ==
  kop = "isKeyComplete" =>
    IF ConversionFails(key)
    THEN kret \in {Throw(ErrNoKind), Throw(ErrAncestor)}
    ELSE kret \in {Bool(TRUE), Bool(FALSE)}

C3_Witness ==
  /\ kop = "isKeyComplete"
  /\ kret = Throw(ErrAncestor)
  /\ Len(given.path) = 3

\* C4, as stated: for a key built from a flat path, isKeyComplete returns true
\* exactly when every segment has a non-empty kind and an id or a name, and
\* false otherwise.
C4_CompleteIffIdOrName ==
  (kop = "isKeyComplete" /\ FlatPath(given.path)) =>
    kret = Bool(\A k \in Range(Chain(key)) : Truthy(k.kind) /\ HasIdOrName(k))

\* C4, amended: it returns true exactly when every segment has a non-empty
\* kind and a non-zero id or a non-empty name; it throws when an ancestor has
\* a zero id or an empty name, and returns false in every other case.
C4_CompleteIffIdentifier ==
  (kop = "isKeyComplete" /\ FlatPath(given.path)) =>
    IF \E a \in Range(Ancestors(key)) : ~HasIdentifier(a)
    THEN kret = Throw(ErrAncestor)
    ELSE kret = Bool(\A k \in Range(Chain(key)) : Truthy(k.kind) /\ HasIdentifier(k))

C4_Witness ==
  /\ kop = "isKeyComplete"
  /\ given.path = <<Str(<<"K">>), Num(70), Str(<<"K">>), Str(<<"n">>)>>
  /\ kret = Bool(TRUE)

\* the element the constructor pops as the kind of the innermost segment
PoppedKind(path) ==
  IF Len(path) % 2 = 0 THEN At(path, Len(path) - 2) ELSE At(path, Len(path) - 1)

\* C5, as stated: no Key with a missing or non-string kind is ever returned by
\* the constructor.
C5_NoKeyWithoutStringKind ==
  kop = "Key" => (key.t = "Key" => IsString(key.kind))

\* C5, amended: the constructor never fails; it returns a Key whose kind is the
\* element popped, absent or not a string as it may be, and the failure comes
\* from keyToKeyProto when the outermost kind is not a string.
C5_KindStoredUnchecked ==
  /\ kop = "Key" => (key.t = "Key" /\ key.kind = PoppedKind(given.path))
  /\ (kop = "keyToKeyProto" /\ key.t = "Key" /\ ~IsString(Chain(key)[1].kind))
       => kret = Throw(ErrNoKind)

C5_Witness ==
  /\ kop = "keyToKeyProto"
  /\ given.path = <<>>
  /\ key.kind = Undefined
  /\ kret = Throw(ErrNoKind)

\* the path element keyToKeyProto emits for a segment
ElementOf(k) ==
  IF Truthy(k.name) THEN [kind |-> k.kind, name |-> k.name]
  ELSE IF Truthy(k.id) THEN [kind |-> k.kind, id |-> k.id]
  ELSE [kind |-> k.kind]

\* C6, as stated: keyToKeyProto fails when some ancestor has neither an id nor
\* a name, and succeeds with one element per segment, in order, when the first
\* path element is a string and every ancestor has an id or a name.
C6_AncestorsChecked ==
  kop = "keyToKeyProto" =>
    /\ (\E a \in Range(Ancestors(key)) : ~HasIdOrName(a)) => IsThrow(kret)
    /\ (IsString(Chain(key)[1].kind) /\ \A a \in Range(Ancestors(key)) : HasIdOrName(a))
         => /\ ~IsThrow(kret)
            /\ kret.path_element = [i \in 1..Len(Chain(key)) |-> ElementOf(Chain(key)[i])]

\* C6, amended: the same with "an id or a name" read as a non-zero id or a
\* non-empty name: an ancestor whose id is 0 or whose name is empty fails too.
C6_AncestorsNeedIdentifier ==
  kop = "keyToKeyProto" =>
    /\ (\E a \in Range(Ancestors(key)) : ~HasIdentifier(a)) => IsThrow(kret)
    /\ (IsString(Chain(key)[1].kind) /\ \A a \in Range(Ancestors(key)) : HasIdentifier(a))
         => /\ ~IsThrow(kret)
            /\ kret.path_element = [i \in 1..Len(Chain(key)) |-> ElementOf(Chain(key)[i])]

C6_Witness ==
  /\ kop = "keyToKeyProto"
  /\ given.path = <<Str(<<"K">>), Undefined, Str(<<"K">>), Num(70)>>
  /\ kret = Throw(ErrAncestor)

\* C11, as stated: the path of a complete key has even length, and the path
\* of an incomplete key (no id and no name on its innermost segment) ends with
\* the innermost kind, with no placeholder after it.
C11_PathEndsWithBareKind ==
  kop = "path" =>
    /\ HasIdOrName(key) => Len(kret.items) % 2 = 0
    /\ ~HasIdOrName(key) => kret.items[Len(kret.items)] = key.kind

\* C11, amended: the path of every key has even length, two elements for each
\* segment, the kind and then name-or-id; on a segment with no non-zero id and
\* no non-empty name, the innermost one included, the second element is a
\* placeholder (undefined, or the id 0), so no path ends with a bare kind.
C11_PathAlwaysPairs ==
  kop = "path" =>
    /\ Len(kret.items) = 2 * Len(Chain(key))
    /\ \A i \in 1..Len(Chain(key)) :
         /\ kret.items[2 * i - 1] = Chain(key)[i].kind
         /\ HasIdentifier(Chain(key)[i]) <=> Truthy(kret.items[2 * i])
         /\ kret.items[2 * i] \in {Chain(key)[i].name, Chain(key)[i].id}

C11_Witness ==
  /\ kop = "path"
  /\ given.path = <<Str(<<"K">>), Num(70), Str(<<"K">>)>>
  /\ kret.items = <<Str(<<"K">>), Num(70), Str(<<"K">>), Undefined>>

\* name-or-id of one segment, from the fields as they are now
NameOrId(k) == IF Truthy(k.name) THEN k.name ELSE k.id
\* a path that lists, root first, the current kind and name-or-id of each Key
ReadsCurrentFields(items, k) ==
  /\ Len(items) = 2 * Len(Chain(k))
  /\ \A i \in 1..Len(Chain(k)) :
       /\ items[2 * i - 1] = Chain(k)[i].kind
       /\ items[2 * i] = NameOrId(Chain(k)[i])

\* C12: after construction and any sequence of reassignments of kind, id or
\* name on a Key or on any of its ancestors, every read of key.path (and of
\* key.parent.path) returns the parent's current path followed by kind and
\* name-or-id from the current field values, never a value from before a
\* reassignment.
C12_PathReadsCurrentFields ==
  /\ kop = "path" => ReadsCurrentFields(kret.items, key)
  /\ kop = "parent.path" => ReadsCurrentFields(kret.items, key.parent)

\* a read after the parent's kind and id and the key's own name were reassigned
C12_Witness ==
  /\ kop = "path"
  /\ given.path = <<Str(<<"K">>), Num(70), Str(<<"K">>), Str(<<"n">>)>>
  /\ kret.items = <<Str(<<"J">>), Num(80), Str(<<"K">>), Str(<<"m">>)>>

\* the Key k with the namespace ns on it and on each of its ancestors
RECURSIVE WithNamespace(_, _)
WithNamespace(ns, k) ==
  [k EXCEPT !.namespace = ns,
            !.parent = IF Truthy(k.parent) THEN WithNamespace(ns, k.parent) ELSE k.parent]

\* C13, as stated: for every Key that keyToKeyProto accepts (string kinds,
\* number or string identifiers, optional namespace), the Key that
\* keyFromKeyProto makes of its protocol object has the same path, element for
\* element, and the same namespace.
C13_KeyRoundTrip ==
  (kop = "keyFromKeyProto" /\ FlatPath(given.path)) =>
    /\ ~IsThrow(kret)
    /\ KeyPath(kret) = KeyPath(key)
    /\ kret.namespace = key.namespace

\* what is left of a value that the encoder treats as absent
Kept(v) == IF Truthy(v) THEN v ELSE Undefined

\* C13, amended: for every such Key the result has the same kinds and the same
\* ancestors, a non-zero id stays that id, a non-empty name stays that name, a
\* non-empty namespace stays that namespace and a complete key stays complete;
\* an innermost id of 0 and a namespace '' come back as undefined.
C13_KeyRoundTripKeepsTruthy ==
  (kop = "keyFromKeyProto" /\ FlatPath(given.path)) =>
    /\ ~IsThrow(kret)
    /\ Len(KeyPath(kret)) = Len(KeyPath(key))
    /\ \A i \in 1..Len(KeyPath(key)) :
         KeyPath(kret)[i] = IF i = Len(KeyPath(key)) THEN Kept(KeyPath(key)[i])
                            ELSE KeyPath(key)[i]
    /\ kret.namespace = Kept(key.namespace)
    /\ kret.id = Kept(key.id)
    /\ kret.name = Kept(key.name)
    /\ kret.parent = IF Truthy(key.parent)
                     THEN WithNamespace(Kept(key.namespace), key.parent)
                     ELSE key.parent
    /\ isKeyComplete(kret) = isKeyComplete(key)

\* a two-segment key with a numeric id, a name and a namespace, and its copy
C13_Witness ==
  /\ kop = "keyFromKeyProto"
  /\ given.namespace = Str(<<"n", "s">>)
  /\ given.path = <<Str(<<"K">>), Num(70), Str(<<"K">>), Str(<<"n">>)>>
  /\ kret = key
  /\ kret.name = Str(<<"n">>) /\ kret.parent.id = Num(70)

\* ---------------------------------------------------- claims on values
\* a native value of a supported tag
RECURSIVE Supported(_)
Supported(v) ==
  CASE v.t \in {"boolean", "number", "string", "Buffer", "Date", "Key"} -> TRUE
    [] v.t \in {"Int", "Double"} -> v.val_.t = "number"
    [] v.t = "array" -> \A i \in 1..Len(v.items) : Supported(v.items[i])
    [] v.t = "object" ->
         Len(v.props) > 0 /\ \A i \in 1..Len(v.props) : Supported(v.props[i].v)
    [] OTHER -> FALSE

\* C1, as stated: for every native value v of a supported tag,
\* propertyToValue(valueToProperty(v)) completes without error and equals v.
C1_RoundTrip ==
  Supported(native) =>
    /\ vop = "valueToProperty" => ~IsThrow(prop)
    /\ vop = "propertyToValue" => back = native

\* a whole number: no tenths, or a magnitude of 10^21 and more
WholeNumber(v) == v.e = 21 \/ \E n \in -1000..1000 : v.q = 10 * n

\* C7: an Int wrapper yields integer_value and a Double wrapper double_value,
\* whatever the payload; a plain number yields integer_value when its
\* fractional part is zero and double_value otherwise; no other field is set.
C7_NumericIntent ==
  vop = "valueToProperty" =>
    /\ native.t = "Int" => prop = [integer_value |-> native.val_]
    /\ native.t = "Double" => prop = [double_value |-> native.val_]
    /\ native.t = "number" =>
         prop = IF WholeNumber(native) THEN [integer_value |-> native]
                ELSE [double_value |-> native]

C7_Witness ==
  /\ vop = "valueToProperty"
  /\ native = DoubleOf(Num(70))
  /\ prop = [double_value |-> Num(70)]

\* the same field names with equal values, in whatever order
SameRecord(a, b) ==
  /\ a.t = "object"
  /\ {a.props[i].k : i \in 1..Len(a.props)} = {b.props[i].k : i \in 1..Len(b.props)}
  /\ Len(a.props) = Len(b.props)
  /\ \A i \in 1..Len(a.props), j \in 1..Len(b.props) :
       a.props[i].k = b.props[j].k => a.props[i].v = b.props[j].v

\* C10, as stated: for every flat record of supported values, the entity proto
\* has key null and one property per field, and decoding it gives a record
\* with the same field names and equal values.
C10_EntityRoundTrip ==
  (/\ vop \in {"entityToEntityProto", "entityFromEntityProto"}
   /\ \A i \in 1..Len(native.props) : Supported(native.props[i].v)) =>
    /\ vop = "entityToEntityProto" =>
         /\ ~IsThrow(prop)
         /\ prop.key = Null
         /\ Len(prop.property) = Len(native.props)
    /\ vop = "entityFromEntityProto" => (~IsThrow(back) /\ SameRecord(back, native))

\* --------------------------------------------------- claims on queries
KnownOps ==
  {<<"=">>, <<">">>, <<">", "=">>, <<"<">>, <<"<", "=">>,
   <<"H", "A", "S", "_", "A", "N", "C", "E", "S", "T", "O", "R">>}
OperatorCodes == {Str(OP_TO_OPERATOR[op]) : op \in KnownOps}
FiltersOf(proto) ==
  IF "filter" \in DOMAIN proto THEN proto.filter.composite_filter.filter ELSE <<>>

ValueFails(f) ==
  IsThrow(IF f.name = Str(KeyField) THEN keyToKeyProto(f.val)
          ELSE valueToProperty(f.val))

C9_LimitOffsetWhenPositive ==
  (qop = "queryToQueryProto" /\ ~IsThrow(qret)) =>
    /\ "limit" \in DOMAIN qret <=> query.limitVal.q > 0
    /\ "limit" \in DOMAIN qret => qret.limit = query.limitVal
    /\ "offset" \in DOMAIN qret <=> query.offsetVal.q > 0
    /\ "offset" \in DOMAIN qret => qret.offset = query.offsetVal

C9_Witness ==
  /\ qop = "queryToQueryProto"
  /\ ~IsThrow(qret)
  /\ query.limitVal = Num(20)
  /\ query.offsetVal = Num(0)
  /\ "limit" \in DOMAIN qret /\ qret.limit = Num(20)
  /\ "offset" \notin DOMAIN qret

====
